---- MODULE Spec2Model ----
(***************************************************************************)
(* Model of static/js/app.js: the CSV parser, the item placement and       *)
(* expiry-colouring functions, and the page's event handlers with their    *)
(* asynchronous fetches.                                                   *)
(*                                                                         *)
(* JavaScript values are represented as follows.                           *)
(*   string     a sequence of one-character strings                        *)
(*   undefined  the sentinel Undefined (no string equals it)               *)
(*   number     a record [k, v]: k = "fin" with the value v, k = "nan",    *)
(*              or k = "inf" (+Infinity)                                   *)
(* Durations in hours are held exactly as their numerator over MsPerHour   *)
(* (that is, in milliseconds); pixel positions are held exactly as their   *)
(* numerator over PosScale.                                                *)
(***************************************************************************)
EXTENDS Integers, Sequences, FiniteSets, TLC

VARIABLES
  now,              \* the wall clock, ms since the epoch (new Date())
  containerWidth,   \* #item-container offsetWidth
  containerHeight,  \* #item-container offsetHeight
  itemContainer,    \* children of #item-container, in order
  console,          \* kinds of message written with console.error
  expiryArg,        \* argument of the last direct getTimeLeft call
  expiryAt,         \* the instant expiryArg was formatted from, or -1
  timeInfo,         \* result of the last direct getTimeLeft call
  timeInfoAt,       \* clock value when timeInfo was computed
  hoursArg,         \* argument of the last direct getColorFromTime call
  colour,           \* result of the last direct getColorFromTime call
  renderArgs,       \* what the records given to a direct renderItems call
                    \* are built from
  renderStatus,     \* of that call: "pending", "returned" or "threw"
  csvShape,         \* the header fields, data lines and trailing text that
                    \* csvText is made of
  csvText,          \* a CSV response body
  records,          \* parseCSV(csvText), once the body has been handled
  csvStatus,        \* "idle", "pending", "rendered" or "failed"
  selectedMap,      \* value of #map-selector
  mapBackground,    \* background image of #main-map
  csvFetches,       \* CSV requests in flight: [id, map, url]
  csvIssued,        \* number of CSV requests issued so far
  latestOk,         \* whether the last issued CSV request has been answered
                    \* and rendered
  logFetches,       \* /api/logs requests in flight: [seq, from]
  logsIssued,       \* number of /api/logs requests issued so far
  logContainer,     \* text of the children of #log-container, in order
  serverLogs,       \* number of entries in the server's log
  shown,            \* [seq, count] of the response last put in the log view
  newestShown,      \* [seq, count] of the latest-issued response ever put
                    \* in the log view
  itemTypeInput,    \* value of #item-type
  alerts,           \* messages shown with alert(), in order
  posts,            \* /api/supply_request requests in flight: [id, item_type]
  submits           \* number of submit events handled so far

timeVars == <<expiryArg, expiryAt, timeInfo, timeInfoAt, hoursArg, colour>>

renderVars == <<renderArgs, renderStatus>>

domVars == <<containerWidth, containerHeight, itemContainer, console>>

csvVars == <<csvShape, csvText, records, csvStatus>>

mapVars == <<selectedMap, mapBackground, csvFetches, csvIssued, latestOk>>

logVars ==
  <<logFetches, logsIssued, logContainer, serverLogs, shown, newestShown>>

formVars == <<itemTypeInput, alerts, posts, submits>>

appVars == <<mapVars, logVars, formVars>>

vars == <<now, domVars, timeVars, renderVars, csvVars, appVars>>

(***************************************************************************)
(* Bounds                                                                  *)
(***************************************************************************)
MaxAdvanceHours == 2

MaxItems == 2

MaxRows == 2

MaxCsvFetches == 3

MaxLogFetches == 2

MaxServerLogs == 2

MaxSubmits == 2

(***************************************************************************)
(* JavaScript values                                                       *)
(***************************************************************************)
Undefined == <<"undefined">>

Num(n) == [k |-> "fin", v |-> n]

NaN == [k |-> "nan", v |-> 0]

Infinity == [k |-> "inf", v |-> 0]

IsFin(a) == a.k = "fin"

\* a - b on numbers (b finite or NaN)
NumSub(a, b) ==
  IF a.k = "nan" \/ b.k = "nan" THEN NaN
  ELSE IF a.k = "inf" THEN Infinity
  ELSE Num(a.v - b.v)

\* a < c and a <= c for a number a and an integer c; false on NaN
NumLt(a, c) == a.k = "fin" /\ a.v < c

NumLe(a, c) == a.k = "fin" /\ a.v <= c

Digits == <<"0", "1", "2", "3", "4", "5", "6", "7", "8", "9">>

IsDigit(c) == \E i \in 1..10 : Digits[i] = c

DigitVal(c) == (CHOOSE i \in 1..10 : Digits[i] = c) - 1

IsSpace(c) == c \in {" ", "\n", "\t", "\r"}

\* String.prototype.trim
RECURSIVE TrimLeft(_)
TrimLeft(s) ==
  IF s = <<>> THEN s
  ELSE IF IsSpace(Head(s)) THEN TrimLeft(Tail(s))
  ELSE s

RECURSIVE TrimRight(_)
TrimRight(s) ==
  IF s = <<>> THEN s
  ELSE IF IsSpace(s[Len(s)]) THEN TrimRight(SubSeq(s, 1, Len(s) - 1))
  ELSE s

Trim(s) == TrimRight(TrimLeft(s))

\* String.prototype.split with a one-character separator
RECURSIVE SplitFrom(_, _, _)
SplitFrom(s, sep, cur) ==
  IF s = <<>> THEN <<cur>>
  ELSE IF Head(s) = sep THEN <<cur>> \o SplitFrom(Tail(s), sep, <<>>)
  ELSE SplitFrom(Tail(s), sep, Append(cur, Head(s)))

Split(s, sep) == SplitFrom(s, sep, <<>>)

\* Number-to-string conversion of an integer (template literals, String())
RECURSIVE NatStr(_)
NatStr(n) ==
  IF n < 10 THEN <<Digits[n + 1]>>
  ELSE Append(NatStr(n \div 10), Digits[(n % 10) + 1])

IntStr(n) == IF n < 0 THEN <<"-">> \o NatStr(0 - n) ELSE NatStr(n)

\* value of a string of decimal digits
RECURSIVE DigitsVal(_)
DigitsVal(s) ==
  IF s = <<>> THEN 0
  ELSE 10 * DigitsVal(SubSeq(s, 1, Len(s) - 1)) + DigitVal(s[Len(s)])

\* the longest prefix of s made of decimal digits
RECURSIVE DigitPrefix(_)
DigitPrefix(s) ==
  IF s = <<>> \/ ~IsDigit(Head(s)) THEN <<>>
  ELSE <<Head(s)>> \o DigitPrefix(Tail(s))

\* parseFloat on undefined and on strings without fraction or exponent
\* syntax: leading white space is skipped, then an optional sign and the
\* longest run of digits are read; NaN when no digit is found.
parseFloat(x) ==
  IF x = Undefined THEN NaN
  ELSE LET t == TrimLeft(x)
           neg == t # <<>> /\ Head(t) = "-"
           signed == t # <<>> /\ Head(t) \in {"-", "+"}
           body == IF signed THEN Tail(t) ELSE t
           ds == DigitPrefix(body)
       IN IF ds = <<>> THEN NaN
          ELSE Num(IF neg THEN 0 - DigitsVal(ds) ELSE DigitsVal(ds))

(***************************************************************************)
(* Dates: new Date(string) and Date.prototype.toISOString for the          *)
(* ISO form YYYY-MM-DDTHH:mm:ss.sssZ.                                      *)
(***************************************************************************)
MsPerHour == 1000 * 60 * 60

MsPerDay == 24 * MsPerHour

DaysInMonth(y, m) ==
  IF m = 2
  THEN (IF (y % 4 = 0 /\ y % 100 # 0) \/ y % 400 = 0 THEN 29 ELSE 28)
  ELSE IF m \in {4, 6, 9, 11} THEN 30 ELSE 31

\* days since 1970-01-01 of the civil date y-m-d
DaysFromCivil(y, m, d) ==
  LET yy == IF m <= 2 THEN y - 1 ELSE y
      era == yy \div 400
      yoe == yy - era * 400
      mp == IF m > 2 THEN m - 3 ELSE m + 9
      doy == (153 * mp + 2) \div 5 + d - 1
      doe == yoe * 365 + yoe \div 4 - yoe \div 100 + doy
  IN era * 146097 + doe - 719468

\* civil date <<y, m, d>> of a day number
CivilFromDays(z0) ==
  LET z == z0 + 719468
      era == z \div 146097
      doe == z - era * 146097
      yoe == (doe - doe \div 1460 + doe \div 36524 - doe \div 146096) \div 365
      doy == doe - (365 * yoe + yoe \div 4 - yoe \div 100)
      mp == (5 * doy + 2) \div 153
      d == doy - (153 * mp + 2) \div 5 + 1
      m == IF mp < 10 THEN mp + 3 ELSE mp - 9
      y == yoe + era * 400
  IN <<IF m <= 2 THEN y + 1 ELSE y, m, d>>

\* n written with exactly w digits
RECURSIVE Pad(_, _)
Pad(n, w) ==
  IF w = 0 THEN <<>>
  ELSE Append(Pad(n \div 10, w - 1), Digits[(n % 10) + 1])

toISOString(ms) ==
  LET civil == CivilFromDays(ms \div MsPerDay)
      r == ms % MsPerDay
  IN Pad(civil[1], 4) \o <<"-">> \o Pad(civil[2], 2) \o <<"-">>
       \o Pad(civil[3], 2) \o <<"T">> \o Pad(r \div MsPerHour, 2) \o <<":">>
       \o Pad((r % MsPerHour) \div 60000, 2) \o <<":">>
       \o Pad((r % 60000) \div 1000, 2) \o <<".">> \o Pad(r % 1000, 3)
       \o <<"Z">>

AllDigits(s) == \A i \in 1..Len(s) : IsDigit(s[i])

\* the time value of new Date(s): a number of ms, or NaN (Invalid Date)
DateParse(s) ==
  IF Len(s) # 24 THEN NaN
  ELSE LET ys == SubSeq(s, 1, 4)
           ms == SubSeq(s, 6, 7)
           ds == SubSeq(s, 9, 10)
           hs == SubSeq(s, 12, 13)
           ns == SubSeq(s, 15, 16)
           ss == SubSeq(s, 18, 19)
           fs == SubSeq(s, 21, 23)
           shape == /\ s[5] = "-" /\ s[8] = "-" /\ s[11] = "T"
                    /\ s[14] = ":" /\ s[17] = ":" /\ s[20] = "."
                    /\ s[24] = "Z"
                    /\ AllDigits(ys \o ms \o ds \o hs \o ns \o ss \o fs)
       IN IF ~shape THEN NaN
          ELSE LET y == DigitsVal(ys)
                   m == DigitsVal(ms)
                   d == DigitsVal(ds)
                   h == DigitsVal(hs)
                   n == DigitsVal(ns)
                   sec == DigitsVal(ss)
                   f == DigitsVal(fs)
               IN IF \/ m < 1 \/ m > 12 \/ d < 1 \/ d > DaysInMonth(y, m)
                     \/ h > 23 \/ n > 59 \/ sec > 59
                  THEN NaN
                  ELSE Num(DaysFromCivil(y, m, d) * MsPerDay + h * MsPerHour
                           + n * 60000 + sec * 1000 + f)

(***************************************************************************)
(* Expiry classification and colour mapping                                *)
(***************************************************************************)
NA == <<"N", "/", "A">>

\* JavaScript's !x for a string or undefined
Falsy(x) == x = Undefined \/ x = <<>>

\* Math.floor of a duration held in ms, in hours, as text
FloorHoursStr(a) == IF IsFin(a) THEN IntStr(a.v \div MsPerHour) ELSE <<"NaN">>

\* getTimeLeft with the expiry test written diffHours <= 0
getTimeLeft_ExpiredAtZero(expiry, nowMs) ==
  IF expiry = NA \/ Falsy(expiry)
  THEN [text |-> <<"No Expiry">>, hoursLeft |-> Infinity]
  ELSE LET diffHours == NumSub(DateParse(expiry), Num(nowMs))
       IN IF NumLe(diffHours, 0)
          THEN [text |-> <<"Expired">>, hoursLeft |-> Num(0)]
          ELSE [text |-> <<"Expires in ">> \o FloorHoursStr(diffHours)
                           \o <<" hours">>,
                hoursLeft |-> diffHours]

\* getTimeLeft with the subtraction reversed: now - expiryDate
getTimeLeft_Elapsed(expiry, nowMs) ==
  IF expiry = NA \/ Falsy(expiry)
  THEN [text |-> <<"No Expiry">>, hoursLeft |-> Infinity]
  ELSE LET diffHours == NumSub(Num(nowMs), DateParse(expiry))
       IN IF NumLt(diffHours, 0)
          THEN [text |-> <<"Expired">>, hoursLeft |-> Num(0)]
          ELSE [text |-> <<"Expires in ">> \o FloorHoursStr(diffHours)
                           \o <<" hours">>,
                hoursLeft |-> diffHours]

getTimeLeft(expiry, nowMs) ==
  IF expiry = NA \/ Falsy(expiry)
  THEN [text |-> <<"No Expiry">>, hoursLeft |-> Infinity]
  ELSE LET expiryDate == DateParse(expiry)
           diffMs == NumSub(expiryDate, Num(nowMs))
           diffHours == diffMs
       IN IF NumLt(diffHours, 0)
          THEN [text |-> <<"Expired">>, hoursLeft |-> Num(0)]
          ELSE [text |-> <<"Expires in ">> \o FloorHoursStr(diffHours)
                           \o <<" hours">>,
                hoursLeft |-> diffHours]

\* getColorFromTime with the red bracket written hoursLeft <= 24
getColorFromTime_Le24(hoursLeft) ==
  IF hoursLeft = Infinity THEN "#3498db"
  ELSE IF NumLe(hoursLeft, 0) THEN "#7f8c8d"
  ELSE IF NumLe(hoursLeft, 24 * MsPerHour) THEN "#e74c3c"
  ELSE IF NumLt(hoursLeft, 72 * MsPerHour) THEN "#f1c40f"
  ELSE "#2ecc71"

getColorFromTime(hoursLeft) ==
  IF hoursLeft = Infinity THEN "#3498db"
  ELSE IF NumLe(hoursLeft, 0) THEN "#7f8c8d"
  ELSE IF NumLt(hoursLeft, 24 * MsPerHour) THEN "#e74c3c"
  ELSE IF NumLt(hoursLeft, 72 * MsPerHour) THEN "#f1c40f"
  ELSE "#2ecc71"

(***************************************************************************)
(* Direct calls of the two pure functions while the clock advances         *)
(***************************************************************************)
T0 == 100 * MsPerHour

Offsets == {0 - MsPerHour, 0 - 1, 0, 1, MsPerHour - 1, MsPerHour,
            24 * MsPerHour - 1, 24 * MsPerHour, 24 * MsPerHour + 1,
            50 * MsPerHour, 50 * MsPerHour + 1800000,
            72 * MsPerHour - 1, 72 * MsPerHour, 73 * MsPerHour}

ExpiryInstants == {T0 + o : o \in Offsets}

\* expiry values that are not instants, as <<value, -1>>
NoInstant == {<<Undefined, -1>>, <<<<>>, -1>>, <<NA, -1>>}

ExpiryInputs == NoInstant \cup {<<toISOString(e), e>> : e \in ExpiryInstants}

Instants ==
  {T0 + k * MsPerHour + e : k \in 0..MaxAdvanceHours, e \in {0, 1}}

HoursInputs == {Infinity} \cup {Num(o) : o \in Offsets}

NoInfo == [text |-> <<>>, hoursLeft |-> NaN]

InitCommon ==
  /\ now = T0
  /\ containerWidth = 0
  /\ containerHeight = 0
  /\ itemContainer = <<>>
  /\ console = {}

IdleTime ==
  /\ expiryArg = Undefined
  /\ expiryAt = -1
  /\ timeInfo = NoInfo
  /\ timeInfoAt = -1
  /\ hoursArg = NaN
  /\ colour = ""

IdleRender ==
  /\ renderArgs = <<>>
  /\ renderStatus = "returned"

NoShape == [header |-> <<>>, rows |-> <<>>, trailing |-> <<>>]

IdleCsv ==
  /\ csvShape = NoShape
  /\ csvText = <<>>
  /\ records = <<>>
  /\ csvStatus = "idle"

NothingShown == [seq |-> 0, count |-> 0]

IdleMap ==
  /\ selectedMap = <<>>
  /\ mapBackground = <<>>
  /\ csvFetches = {}
  /\ csvIssued = 0
  /\ latestOk = FALSE

IdleLogs ==
  /\ logFetches = {}
  /\ logsIssued = 0
  /\ logContainer = <<>>
  /\ serverLogs = 0
  /\ shown = NothingShown
  /\ newestShown = NothingShown

IdleForm ==
  /\ itemTypeInput = <<>>
  /\ alerts = <<>>
  /\ posts = {}
  /\ submits = 0

InitTime ==
  /\ InitCommon
  /\ IdleTime
  /\ IdleRender
  /\ IdleCsv
  /\ IdleMap
  /\ IdleLogs
  /\ IdleForm

Tick ==
  /\ \E t \in Instants : t > now /\ now' = t
  /\ UNCHANGED <<domVars, timeVars, renderVars, csvVars, appVars>>

CallGetTimeLeft ==
  /\ \E x \in ExpiryInputs :
       /\ expiryArg' = x[1]
       /\ expiryAt' = x[2]
       /\ timeInfo' = getTimeLeft(x[1], now)
  /\ timeInfoAt' = now
  /\ UNCHANGED <<now, domVars, hoursArg, colour, renderVars, csvVars,
                 appVars>>

CallGetColorFromTime ==
  /\ \E h \in HoursInputs :
       /\ hoursArg' = h
       /\ colour' = getColorFromTime(h)
  /\ UNCHANGED <<now, domVars, expiryArg, expiryAt, timeInfo, timeInfoAt,
                 renderVars, csvVars, appVars>>

NextTime == Tick \/ CallGetTimeLeft \/ CallGetColorFromTime

SpecTime == InitTime /\ [][NextTime]_vars

(***************************************************************************)
(* C1: getColorFromTime returns exactly one of the five tokens for every   *)
(* hoursLeft in the reals plus +Infinity: blue iff +Infinity, grey iff     *)
(* hoursLeft <= 0, red iff 0 < hoursLeft < 24, yellow iff                  *)
(* 24 <= hoursLeft < 72, green iff 72 <= hoursLeft < +Infinity.            *)
(***************************************************************************)
C1_ColourTable ==
  colour # "" =>
    /\ colour \in {"#3498db", "#7f8c8d", "#e74c3c", "#f1c40f", "#2ecc71"}
    /\ (colour = "#3498db") <=> (hoursArg = Infinity)
    /\ (colour = "#7f8c8d") <=> (IsFin(hoursArg) /\ hoursArg.v <= 0)
    /\ (colour = "#e74c3c") <=>
         (IsFin(hoursArg) /\ 0 < hoursArg.v /\ hoursArg.v < 24 * MsPerHour)
    /\ (colour = "#f1c40f") <=>
         (IsFin(hoursArg) /\ 24 * MsPerHour <= hoursArg.v
                          /\ hoursArg.v < 72 * MsPerHour)
    /\ (colour = "#2ecc71") <=>
         (IsFin(hoursArg) /\ 72 * MsPerHour <= hoursArg.v)

C1_Witness ==
  /\ colour = "#f1c40f"
  /\ hoursArg = Num(24 * MsPerHour)

(***************************************************************************)
(* C2: getTimeLeft classifies as the specification says, for every input   *)
(* and every instant: absent, empty or "N/A" gives "No Expiry" with        *)
(* +Infinity; an expiry instant with diffHours = (expiry - now)/3600000    *)
(* gives "Expired" with 0 when diffHours < 0 and otherwise                 *)
(* "Expires in floor(diffHours) hours" with hoursLeft = diffHours.         *)
(***************************************************************************)
C2_Classify ==
  timeInfoAt >= 0 =>
    IF expiryAt = -1
    THEN timeInfo = [text |-> <<"No Expiry">>, hoursLeft |-> Infinity]
    ELSE LET diffMs == expiryAt - timeInfoAt
         IN IF diffMs < 0
            THEN timeInfo = [text |-> <<"Expired">>, hoursLeft |-> Num(0)]
            ELSE /\ timeInfo.hoursLeft = Num(diffMs)
                 /\ timeInfo.text =
                      <<"Expires in ">> \o IntStr(diffMs \div MsPerHour)
                        \o <<" hours">>

C2_Witness ==
  /\ expiryAt = timeInfoAt + 50 * MsPerHour + 1800000
  /\ timeInfo.text = <<"Expires in ", "5", "0", " hours">>
  /\ timeInfo.hoursLeft = Num(50 * MsPerHour + 1800000)

(***************************************************************************)
(* C9: for a fixed parseable Expiry_Date, hoursLeft never increases as the *)
(* clock advances from t1 to t2 > t1, and strictly decreases whenever t1   *)
(* precedes the expiry instant.                                            *)
(***************************************************************************)
C9_Monotone ==
  (timeInfoAt >= 0 /\ expiryAt >= 0) =>
    LET later == getTimeLeft(expiryArg, now).hoursLeft
        earlier == timeInfo.hoursLeft
    IN /\ IsFin(later) /\ IsFin(earlier)
       /\ later.v <= earlier.v
       /\ (timeInfoAt < now /\ timeInfoAt < expiryAt) => later.v < earlier.v

C9_Witness ==
  /\ timeInfoAt >= 0
  /\ timeInfoAt < now
  /\ now < expiryAt
  /\ getTimeLeft(expiryArg, now).hoursLeft.v < timeInfo.hoursLeft.v

(***************************************************************************)
(* Item records and renderItems                                            *)
(***************************************************************************)
centre_coordinates ==
  <<"c", "e", "n", "t", "r", "e", "_",
    "c", "o", "o", "r", "d", "i", "n", "a", "t", "e", "s">>

length == <<"l", "e", "n", "g", "t", "h">>

breadth == <<"b", "r", "e", "a", "d", "t", "h">>

Expiry_Date == <<"E", "x", "p", "i", "r", "y", "_", "D", "a", "t", "e">>

item_name == <<"i", "t", "e", "m", "_", "n", "a", "m", "e">>

\* property read item.key of an object held as a function on its own keys
Get(item, key) == IF key \in DOMAIN item THEN item[key] ELSE Undefined

PosScale == 100 * 2

\* PosOf without the half-size offset: the box's corner on the point
PosOf_Corner(percent, containerSize, size) ==
  IF IsFin(percent) /\ IsFin(size)
  THEN Num((PosScale \div 100) * percent.v * containerSize)
  ELSE NaN

\* (percent / 100 * containerSize) - (size / 2), as a numerator over PosScale
PosOf(percent, containerSize, size) ==
  IF IsFin(percent) /\ IsFin(size)
  THEN Num((PosScale \div 100) * percent.v * containerSize
           - (PosScale \div 2) * size.v)
  ELSE NaN

\* MapItem with the top percentage falling back to the first component
MapItem_TopDefault(item, cw, ch, nowMs) ==
  LET coordinates == Split(Get(item, centre_coordinates), ",")
      leftPercent == parseFloat(coordinates[1])
      topPercent ==
        parseFloat(IF Len(coordinates) >= 2 THEN coordinates[2]
                   ELSE coordinates[1])
      width == parseFloat(Get(item, length))
      height == parseFloat(Get(item, breadth))
      info == getTimeLeft(Get(item, Expiry_Date), nowMs)
  IN [width |-> width,
      height |-> height,
      left |-> PosOf(leftPercent, cw, width),
      top |-> PosOf(topPercent, ch, height),
      backgroundColor |-> getColorFromTime(info.hoursLeft),
      timeInfo |-> info,
      item |-> item]

\* the div built for one item by the body of the forEach callback; the
\* callback throws a TypeError instead when centre_coordinates is undefined
MapItem(item, cw, ch, nowMs) ==
  LET coordinates == Split(Get(item, centre_coordinates), ",")
      leftPercent == parseFloat(coordinates[1])
      topPercent ==
        parseFloat(IF Len(coordinates) >= 2 THEN coordinates[2] ELSE Undefined)
      width == parseFloat(Get(item, length))
      height == parseFloat(Get(item, breadth))
      info == getTimeLeft(Get(item, Expiry_Date), nowMs)
  IN [width |-> width,
      height |-> height,
      left |-> PosOf(leftPercent, cw, width),
      top |-> PosOf(topPercent, ch, height),
      backgroundColor |-> getColorFromTime(info.hoursLeft),
      timeInfo |-> info,
      item |-> item]

\* the children appended by items.forEach, up to the first item that throws
RECURSIVE AppendItems(_, _, _, _)
AppendItems(items, cw, ch, nowMs) ==
  IF items = <<>> THEN [children |-> <<>>, threw |-> FALSE]
  ELSE IF Get(Head(items), centre_coordinates) = Undefined
  THEN [children |-> <<>>, threw |-> TRUE]
  ELSE LET rest == AppendItems(Tail(items), cw, ch, nowMs)
       IN [children |-> <<MapItem(Head(items), cw, ch, nowMs)>>
                          \o rest.children,
           threw |-> rest.threw]

\* renderItems: the container is cleared, then the items are appended
renderItems(container, items, cw, ch, nowMs) ==
  LET cleared == SubSeq(container, 1, 0)
      r == AppendItems(items, cw, ch, nowMs)
  IN [children |-> cleared \o r.children, threw |-> r.threw]

(***************************************************************************)
(* Direct calls of renderItems                                             *)
(***************************************************************************)
Sizes == {<<400, 200>>, <<300, 100>>, <<0, 0>>}

\* well-formed items: percentages x, y and a size w x h
GoodArgs ==
  {[good |-> TRUE, coords |-> IntStr(a[1]) \o <<",">> \o IntStr(a[2]),
    x |-> a[1], y |-> a[2], w |-> a[3], h |-> a[4]] :
     a \in {<<50, 50, 40, 20>>, <<150, -10, 15, 20>>, <<0, 100, 7, 9>>}}

\* items whose centre_coordinates cannot be parsed, or is missing
BadCoords == {<<"5", "0">>, <<"x", ",", "5", "0">>, <<"5", "0", ",", "x">>,
              <<>>, Undefined}

BadArgs ==
  {[good |-> FALSE, coords |-> c, x |-> 0, y |-> 0, w |-> 40, h |-> 20] :
     c \in BadCoords}

ItemArgs == GoodArgs \cup BadArgs

\* the record a CSV row with these values stands for
ItemOf(a) ==
  LET keys == {item_name, length, breadth, Expiry_Date}
                \cup (IF a.coords = Undefined THEN {}
                      ELSE {centre_coordinates})
  IN [key \in keys |->
        IF key = centre_coordinates THEN a.coords
        ELSE IF key = length THEN IntStr(a.w)
        ELSE IF key = breadth THEN IntStr(a.h)
        ELSE IF key = Expiry_Date THEN NA
        ELSE <<"i">>]

ArgLists == UNION {[1..n -> ItemArgs] : n \in 0..MaxItems}

\* what an earlier render may have left in the container
EarlierChildren ==
  {<<>>, <<MapItem(ItemOf(CHOOSE a \in GoodArgs : a.x = 0), 400, 200, T0)>>}

InitRender ==
  /\ now = T0
  /\ \E size \in Sizes :
       /\ containerWidth = size[1]
       /\ containerHeight = size[2]
  /\ itemContainer \in EarlierChildren
  /\ console = {}
  /\ IdleTime
  /\ renderArgs \in ArgLists
  /\ renderStatus = "pending"
  /\ IdleCsv
  /\ IdleMap
  /\ IdleLogs
  /\ IdleForm

CallRenderItems ==
  /\ renderStatus = "pending"
  /\ LET items == [i \in 1..Len(renderArgs) |-> ItemOf(renderArgs[i])]
         r == renderItems(itemContainer, items,
                          containerWidth, containerHeight, now)
     IN /\ itemContainer' = r.children
        /\ renderStatus' = IF r.threw THEN "threw" ELSE "returned"
  /\ UNCHANGED <<now, containerWidth, containerHeight, console, timeVars,
                 renderArgs, csvVars, appVars>>

NextRender == CallRenderItems

SpecRender == InitRender /\ [][NextRender]_vars

(***************************************************************************)
(* C3: an item with centre_coordinates "x,y" and size w x h is placed with *)
(* left = x/100*containerWidth - w/2 and top = y/100*containerHeight - h/2,*)
(* so its box is centred on the percentage point, also when x or y is      *)
(* outside [0,100].                                                        *)
(***************************************************************************)
C3_Centred ==
  \A i \in 1..Len(renderArgs) :
    (/\ renderStatus # "pending"
     /\ renderArgs[i].good
     /\ \A j \in 1..i : renderArgs[j].coords # Undefined)
      => /\ i <= Len(itemContainer)
         /\ LET div == itemContainer[i]
                a == renderArgs[i]
            IN /\ div.width = Num(a.w)
               /\ div.height = Num(a.h)
               /\ IsFin(div.left) /\ IsFin(div.top)
               /\ 100 * (2 * div.left.v + PosScale * a.w)
                    = 2 * PosScale * a.x * containerWidth
               /\ 100 * (2 * div.top.v + PosScale * a.h)
                    = 2 * PosScale * a.y * containerHeight

C3_Witness ==
  /\ renderStatus = "returned"
  /\ containerWidth = 400
  /\ containerHeight = 200
  /\ Len(itemContainer) = 2
  /\ renderArgs[1].coords = <<"5", "0", ",", "5", "0">>
  /\ renderArgs[1].w = 40
  /\ itemContainer[1].left = Num(180 * PosScale)
  /\ itemContainer[1].top = Num(90 * PosScale)
  /\ renderArgs[2].x = 150
  /\ renderArgs[2].y = -10
  /\ itemContainer[2].left.v > containerWidth * PosScale
  /\ itemContainer[2].top.v < 0

(***************************************************************************)
(* C5: a record whose centre_coordinates is unparseable is never placed:   *)
(* no item is in the container with a NaN left or top position.            *)
(***************************************************************************)
C5_NeverPlacedAtNaN ==
  renderStatus # "pending" =>
    /\ \A i \in 1..Len(itemContainer) :
         IsFin(itemContainer[i].left) /\ IsFin(itemContainer[i].top)
    /\ (\E i \in 1..Len(renderArgs) : ~renderArgs[i].good)
         => renderStatus = "threw"

(***************************************************************************)
(* parseCSV and the handling of a CSV response body                        *)
(***************************************************************************)
\* the largest index at which header occurs in headers
LastIndex(headers, header) ==
  CHOOSE j \in 1..Len(headers) :
    /\ headers[j] = header
    /\ \A k \in (j + 1)..Len(headers) : headers[k] # header

\* the object built by headers.forEach for one row: obj[header] = row[index]
RowObject(headers, row) ==
  [header \in {headers[j] : j \in 1..Len(headers)} |->
     LET index == LastIndex(headers, header)
     IN IF index <= Len(row) THEN row[index] ELSE Undefined]

TrimAll(fields) == [j \in 1..Len(fields) |-> Trim(fields[j])]

\* parseCSV without the trim of the whole text
parseCSV_NoTrim(text) ==
  LET lines == Split(text, "\n")
      headers == TrimAll(Split(lines[1], ","))
  IN [i \in 1..(Len(lines) - 1) |->
        RowObject(headers, TrimAll(Split(lines[i + 1], ",")))]

parseCSV(text) ==
  LET lines == Split(Trim(text), "\n")
      headers == TrimAll(Split(lines[1], ","))
  IN [i \in 1..(Len(lines) - 1) |->
        RowObject(headers, TrimAll(Split(lines[i + 1], ",")))]

\* the callback text => { data = parseCSV(text); renderItems(data) } and
\* the catch that follows it in loadCSVDataFromMap
OnCsvText(container, text, cw, ch, nowMs) ==
  LET data == parseCSV(text)
      r == renderItems(container, data, cw, ch, nowMs)
  IN [data |-> data, children |-> r.children, failed |-> r.threw]

CsvError == "Error loading CSV: "

(***************************************************************************)
(* CSV response bodies and their handling                                  *)
(***************************************************************************)
RECURSIVE Join(_, _)
Join(parts, sep) ==
  IF parts = <<>> THEN <<>>
  ELSE IF Len(parts) = 1 THEN parts[1]
  ELSE parts[1] \o <<sep>> \o Join(Tail(parts), sep)

HeaderLines ==
  {<<<<"a">>, <<"b">>>>,
   <<<<" ", "a", " ">>, <<"a">>>>,
   <<<<"a">>, <<>>, <<"b", " ">>>>,
   <<<<>>>>,
   <<<<" ">>>>,
   <<centre_coordinates, length, breadth>>,
   <<length, centre_coordinates>>}

RowLines ==
  {<<<<"1">>, <<"2">>>>,
   <<<<"1">>>>,
   <<<<" ", "3", " ">>, <<"4">>, <<"5">>>>,
   <<<<>>>>,
   <<<<" ">>, <<>>>>,
   <<<<"5", "0">>, <<"5", "0">>, <<"4", "0">>, <<"2", "0">>>>,
   <<<<"4", "0">>>>}

Trailings == {<<>>, <<" ">>, <<"\n">>, <<"\n", " ", "\n">>}

IsBlank(line) == Trim(line) = <<>>

LineOf(fields) == Join(fields, ",")

\* header and data lines, the last data line not blank, and trailing text
Shapes ==
  {sh \in [header : HeaderLines,
           rows : UNION {[1..n -> RowLines] : n \in 0..MaxRows},
           trailing : Trailings] :
     sh.rows # <<>> => ~IsBlank(LineOf(sh.rows[Len(sh.rows)]))}

TextOf(sh) ==
  Join(<<LineOf(sh.header)>>
         \o [i \in 1..Len(sh.rows) |-> LineOf(sh.rows[i])], "\n")
    \o sh.trailing

InitCSV ==
  /\ now = T0
  /\ containerWidth = 400
  /\ containerHeight = 200
  /\ itemContainer \in EarlierChildren
  /\ console = {}
  /\ IdleTime
  /\ IdleRender
  /\ csvShape \in Shapes
  /\ csvText = TextOf(csvShape)
  /\ records = <<>>
  /\ csvStatus = "pending"
  /\ IdleMap
  /\ IdleLogs
  /\ IdleForm

HandleCsvText ==
  /\ csvStatus = "pending"
  /\ LET r == OnCsvText(itemContainer, csvText,
                        containerWidth, containerHeight, now)
     IN /\ records' = r.data
        /\ itemContainer' = r.children
        /\ csvStatus' = IF r.failed THEN "failed" ELSE "rendered"
        /\ console' = IF r.failed THEN console \cup {CsvError} ELSE console
  /\ UNCHANGED <<now, containerWidth, containerHeight, timeVars, renderVars,
                 csvShape, csvText, appVars>>

NextCSV == HandleCsvText

SpecCSV == InitCSV /\ [][NextCSV]_vars

Handled == csvStatus \in {"rendered", "failed"}

Map1 == <<"m", "a", "p", "1", ".", "p", "n", "g">>

Map2 == <<"m", "a", "p", "2", ".", "p", "n", "g">>

Maps == {Map1, Map2}

\* the CSV files the server holds, by URL
File1 ==
  Join(<<LineOf(<<centre_coordinates, length, breadth>>),
         <<"5", "0", ",", "4", "0", ",", "2", "0">>>>, "\n")

File2 ==
  Join(<<LineOf(<<centre_coordinates, length, breadth>>),
         <<"1", "0", ",", "1", "5", ",", "1", "5">>,
         <<"9", "0", ",", "1", "5", ",", "1", "5">>>>, "\n") \o <<"\n">>

\* loadMap: the background image set on #main-map
loadMap(mapImgName) == <<"url('/maps/">> \o mapImgName \o <<"')">>

\* the URL requested by loadCSVDataFromMap
CsvUrl(mapImgName) ==
  LET baseName == Split(mapImgName, ".")[1]
  IN <<"/data/">> \o baseName \o <<".csv">>

FileAt(url) ==
  IF url = <<"/data/", "m", "a", "p", "1", ".csv">> THEN File1 ELSE File2

\* loadMap(m); loadCSVDataFromMap(m) up to the point the request is sent
LoadBoth(m) ==
  /\ mapBackground' = loadMap(m)
  /\ csvIssued' = csvIssued + 1
  /\ csvFetches' = csvFetches
                     \cup {[id |-> csvIssued + 1, map |-> m, url |-> CsvUrl(m)]}
  /\ latestOk' = FALSE

InitMap ==
  /\ now = T0
  /\ containerWidth = 400
  /\ containerHeight = 200
  /\ itemContainer = <<>>
  /\ console = {}
  /\ IdleTime
  /\ IdleRender
  /\ IdleCsv
  /\ selectedMap \in Maps
  /\ mapBackground = loadMap(selectedMap)
  /\ csvFetches = {[id |-> 1, map |-> selectedMap, url |-> CsvUrl(selectedMap)]}
  /\ csvIssued = 1
  /\ latestOk = FALSE
  /\ IdleLogs
  /\ IdleForm

\* the change listener of #map-selector
MapSelectorChange ==
  /\ csvIssued < MaxCsvFetches
  /\ \E m \in Maps :
       /\ selectedMap' = m
       /\ LoadBoth(m)
  /\ UNCHANGED <<now, domVars, timeVars, renderVars, csvVars, logVars,
                 formVars>>

\* a CSV request is answered with the file: parseCSV, then renderItems
CsvResponseOk ==
  /\ \E f \in csvFetches :
       LET r == OnCsvText(itemContainer, FileAt(f.url),
                          containerWidth, containerHeight, now)
       IN /\ csvFetches' = csvFetches \ {f}
          /\ itemContainer' = r.children
          /\ console' = IF r.failed THEN console \cup {CsvError} ELSE console
          /\ latestOk' = IF f.id = csvIssued THEN ~r.failed ELSE latestOk
  /\ UNCHANGED <<now, containerWidth, containerHeight, timeVars, renderVars,
                 csvVars, selectedMap, mapBackground, csvIssued, logVars,
                 formVars>>

\* a CSV request fails (network error, or a response that is not ok)
CsvResponseFails ==
  /\ \E f \in csvFetches : csvFetches' = csvFetches \ {f}
  /\ console' = console \cup {CsvError}
  /\ UNCHANGED <<now, containerWidth, containerHeight, itemContainer,
                 timeVars, renderVars, csvVars, selectedMap, mapBackground,
                 csvIssued, latestOk, logVars, formVars>>

NextMap == MapSelectorChange \/ CsvResponseOk \/ CsvResponseFails

SpecMap == InitMap /\ [][NextMap]_vars

\* the placements computed from the CSV of the map m
PlacementsOf(m) ==
  renderItems(<<>>, parseCSV(FileAt(CsvUrl(m))),
              containerWidth, containerHeight, now).children

(***************************************************************************)
(* C7: placements do not carry over between map switches: once no CSV      *)
(* request is in flight, the container holds no placement of a map other   *)
(* than the most recently selected one, and holds exactly that map's       *)
(* placements when its request succeeded.                                  *)
(***************************************************************************)
C7_NoCarryOver ==
  csvFetches = {} =>
    /\ \A i \in 1..Len(itemContainer) :
         \E k \in 1..Len(PlacementsOf(selectedMap)) :
           itemContainer[i] = PlacementsOf(selectedMap)[k]
    /\ latestOk => itemContainer = PlacementsOf(selectedMap)

(***************************************************************************)
(* The log view and the supply request form: init, fetchLogs, the 30 s     *)
(* interval and handleSupplyRequest.  Responses have the format the        *)
(* endpoints are expected to use: {success, logs} and {success}.           *)
(***************************************************************************)
\* the first n entries of the server's log, as sent by GET /api/logs
ServerLog(n) ==
  [i \in 1..n |-> [timestamp |-> IntStr(i),
                   action |-> <<"supply_request">>]]

\* textContent of the entry built for one log
LogEntry(log) == <<"[">> \o log.timestamp \o <<"] [">> \o log.action \o <<"]">>

\* the callback of fetchLogs without the clearing of the container
OnLogsData_Append(container, data) ==
  IF data.success
  THEN container \o [i \in 1..Len(data.logs) |-> LogEntry(data.logs[i])]
  ELSE container

\* the callback data => { ... } of fetchLogs applied to the log container
OnLogsData(container, data) ==
  IF data.success
  THEN LET cleared == SubSeq(container, 1, 0)
       IN cleared \o [i \in 1..Len(data.logs) |-> LogEntry(data.logs[i])]
  ELSE container

\* fetchLogs up to the point the request is sent
fetchLogs ==
  /\ logsIssued' = logsIssued + 1
  /\ logFetches' = logFetches
                     \cup {[seq |-> logsIssued + 1, from |-> serverLogs]}

\* the emptiness test without the trim
IsEmptyItemType_NoTrim(itemType) == itemType = <<>>

\* whether handleSupplyRequest rejects the value of #item-type
IsEmptyItemType(itemType) == Trim(itemType) = <<>>

EmptyAlert == "Please enter an item type for the supply request."

SuccessAlert == "Supply request submitted successfully!"

FailedAlert == "Supply request failed. Try again."

ErrorAlert == "Error sending supply request."

LogsError == "Error fetching logs: "

SupplyError == "Error with supply request: "

ItemTypes == {<<>>, <<" ">>, <<" ", "o", "2">>}

InitLogs ==
  /\ InitCommon
  /\ IdleTime
  /\ IdleRender
  /\ IdleCsv
  /\ IdleMap
  /\ logFetches = {[seq |-> 1, from |-> 0]}
  /\ logsIssued = 1
  /\ logContainer = <<>>
  /\ serverLogs = 0
  /\ shown = NothingShown
  /\ newestShown = NothingShown
  /\ IdleForm

\* the server's log grows
ServerAppendsLog ==
  /\ serverLogs < MaxServerLogs
  /\ serverLogs' = serverLogs + 1
  /\ UNCHANGED <<now, domVars, timeVars, renderVars, csvVars, mapVars,
                 logFetches, logsIssued, logContainer, shown, newestShown,
                 formVars>>

\* setInterval(fetchLogs, 30000) fires
IntervalFires ==
  /\ logsIssued < MaxLogFetches
  /\ fetchLogs
  /\ UNCHANGED <<now, domVars, timeVars, renderVars, csvVars, mapVars,
                 logContainer, serverLogs, shown, newestShown, formVars>>

\* a /api/logs request is answered with success and the log as it was at
\* some moment between the request and the response
LogsResponseSuccess ==
  /\ \E f \in logFetches : \E n \in f.from..serverLogs :
       /\ logFetches' = logFetches \ {f}
       /\ logContainer' =
            OnLogsData(logContainer, [success |-> TRUE, logs |-> ServerLog(n)])
       /\ shown' = [seq |-> f.seq, count |-> n]
       /\ newestShown' = IF f.seq > newestShown.seq
                         THEN [seq |-> f.seq, count |-> n]
                         ELSE newestShown
  /\ UNCHANGED <<now, domVars, timeVars, renderVars, csvVars, mapVars,
                 logsIssued, serverLogs, formVars>>

\* a /api/logs request is answered with success: false
LogsResponseNoSuccess ==
  /\ \E f \in logFetches :
       /\ logFetches' = logFetches \ {f}
       /\ logContainer' =
            OnLogsData(logContainer, [success |-> FALSE, logs |-> <<>>])
  /\ UNCHANGED <<now, domVars, timeVars, renderVars, csvVars, mapVars,
                 logsIssued, serverLogs, shown, newestShown, formVars>>

\* a /api/logs request fails, or its body is not JSON
LogsResponseFails ==
  /\ \E f \in logFetches : logFetches' = logFetches \ {f}
  /\ console' = console \cup {LogsError}
  /\ UNCHANGED <<now, containerWidth, containerHeight, itemContainer,
                 timeVars, renderVars, csvVars, mapVars, logsIssued,
                 logContainer, serverLogs, shown, newestShown, formVars>>

\* the user edits #item-type
TypeItemType ==
  /\ \E v \in ItemTypes : v # itemTypeInput /\ itemTypeInput' = v
  /\ UNCHANGED <<now, domVars, timeVars, renderVars, csvVars, mapVars,
                 logVars, alerts, posts, submits>>

\* the submit listener of #supply-request-form
handleSupplyRequest ==
  /\ submits < MaxSubmits
  /\ submits' = submits + 1
  /\ LET itemType == itemTypeInput
     IN IF IsEmptyItemType(itemType)
        THEN /\ alerts' = Append(alerts, EmptyAlert)
             /\ UNCHANGED posts
        ELSE /\ posts' = posts \cup {[id |-> submits + 1,
                                      item_type |-> itemType]}
             /\ UNCHANGED alerts
  /\ UNCHANGED <<now, domVars, timeVars, renderVars, csvVars, mapVars,
                 logVars, itemTypeInput>>

\* a supply request is answered with success: true
PostResponseSuccess ==
  /\ logsIssued < MaxLogFetches
  /\ \E p \in posts : posts' = posts \ {p}
  /\ alerts' = Append(alerts, SuccessAlert)
  /\ itemTypeInput' = <<>>
  /\ fetchLogs
  /\ UNCHANGED <<now, domVars, timeVars, renderVars, csvVars, mapVars,
                 logContainer, serverLogs, shown, newestShown, submits>>

\* a supply request is answered with success: false
PostResponseNoSuccess ==
  /\ \E p \in posts : posts' = posts \ {p}
  /\ alerts' = Append(alerts, FailedAlert)
  /\ UNCHANGED <<now, domVars, timeVars, renderVars, csvVars, mapVars,
                 logVars, itemTypeInput, submits>>

\* a supply request fails, or its body is not JSON
PostResponseFails ==
  /\ \E p \in posts : posts' = posts \ {p}
  /\ console' = console \cup {SupplyError}
  /\ alerts' = Append(alerts, ErrorAlert)
  /\ UNCHANGED <<now, containerWidth, containerHeight, itemContainer,
                 timeVars, renderVars, csvVars, mapVars, logVars,
                 itemTypeInput, submits>>

NextLogs ==
  \/ ServerAppendsLog
  \/ IntervalFires
  \/ LogsResponseSuccess
  \/ LogsResponseNoSuccess
  \/ LogsResponseFails
  \/ TypeItemType
  \/ handleSupplyRequest
  \/ PostResponseSuccess
  \/ PostResponseNoSuccess
  \/ PostResponseFails

SpecLogs == InitLogs /\ [][NextLogs]_vars

(***************************************************************************)
(* C6: when #item-type is empty or white space only, the submit handler    *)
(* shows the alert and issues no POST; the input value and the log view    *)
(* are left unchanged.                                                     *)
(***************************************************************************)
C6_EmptyBlocked ==
  [][(submits' = submits + 1 /\ Trim(itemTypeInput) = <<>>)
       => /\ alerts' = Append(alerts, EmptyAlert)
          /\ posts' = posts
          /\ itemTypeInput' = itemTypeInput
          /\ logContainer' = logContainer
          /\ logFetches' = logFetches]_vars

C6_Witness ==
  /\ submits = 2
  /\ itemTypeInput = <<" ">>
  /\ alerts = <<EmptyAlert, EmptyAlert>>
  /\ posts = {}
  /\ logContainer # <<>>

(***************************************************************************)
(* C8: log responses are applied in completion order: the log view always  *)
(* shows exactly the logs of the successful response that completed last,  *)
(* also when a later-issued request's response was displayed before it.    *)
(***************************************************************************)
C8_CompletionOrder ==
  shown.seq > 0 =>
    logContainer =
      [i \in 1..shown.count |->
         <<"[">> \o IntStr(i) \o <<"] [", "supply_request", "]">>]

C8_Witness ==
  /\ shown.seq > 0
  /\ shown.seq < newestShown.seq
  /\ shown.count < newestShown.count
  /\ Len(logContainer) = shown.count
  /\ logFetches = {}

====
